---- MODULE Spec2Model ----
(***************************************************************************)
(* ProductVariantInventoryService                                          *)
(* (packages/medusa/src/services/product-variant-inventory.ts).            *)
(*                                                                         *)
(* The service links sellable variants to inventory items, confirms        *)
(* availability, and creates / adjusts / deletes reservations.  It runs    *)
(* without an inventory service ("Simple Mode": one counter on the         *)
(* variant) or with one ("Ledger Mode": links, locations, reservations).   *)
(***************************************************************************)
EXTENDS Integers, Sequences, FiniteSets, TLC

\* ------------------------------------------------------------------ bounds
\* largest link multiplier / requested quantity an input may carry
MaxQuantity == 2
\* largest stocked quantity of one item at one location
MaxStock == 2
\* largest absolute value of a variant's inventory_quantity counter
MaxInventory == 4
\* number of reservation records the ledger ever creates
MaxReservations == 3
\* largest absolute value of a reservation's quantity
MaxReserved == 8

\* ------------------------------------------------------------- identifiers
Variants == {"v1", "v2"}
\* an id the variant store does not know
UnknownVariant == "v0"
VariantIds == Variants \cup {UnknownVariant}
Items == {"i1", "i2"}
\* an id the ledger does not know
UnknownItem == "i0"
ItemIds == Items \cup {UnknownItem}
Locations == {"loc1", "loc2"}
LineItems == {"li1", "li2"}
\* concurrent callers of the service
Callers == {"c1", "c2"}
\* the value of an absent optional string argument
undefined == "undefined"
\* an optional number is <<>> (omitted) or <<n>>
Optional(S) == {<<>>} \cup {<<n>> : n \in S}

VARIABLES
    inventoryService_,   \* TRUE iff an inventory service was injected
    productVariant,      \* variant store: id -> flags and counter
    variantInventory,    \* rows of ProductVariantInventoryItem
    reservations,        \* reservation items held by the inventory service
    inventoryLevels,     \* stocked quantity per <<item, location>>
    createdCount,        \* reservation items created so far (id / created_at)
    claimedBalance,      \* per variant: initial counter minus all requested q / delta
    calls,               \* inventory-service calls issued by the last operation
    tx,                  \* per caller: the call in flight and what it has read
    last                 \* the last operation: arguments, locals, outcome

vars == <<inventoryService_, productVariant, variantInventory, reservations,
          inventoryLevels, createdCount, claimedBalance, calls, tx, last>>

\* ------------------------------------------------------------ collaborators
\* SalesChannelLocationService.listLocations: ordered location ids of a channel
SalesChannels == {"sc1", "sc2", "sc3"}
listLocations(salesChannelId) ==
    IF salesChannelId = "sc1" THEN <<"loc2", "loc1">>
    ELSE IF salesChannelId = "sc3" THEN <<"loc1">>
    ELSE <<>>

\* StockLocationService.list mapped to ids
stockLocations == Locations

Range(s) == {s[k] : k \in DOMAIN s}

\* one inventory-service call, in a uniform shape
Call(fn, item, locs, qty, lineItem) ==
    [fn |-> fn, inventory_item_id |-> item, location_ids |-> locs,
     quantity |-> qty, line_item_id |-> lineItem]

\* ---------------------------------------------------------------- link table
\* the lookup by inventory item alone
findOne_AnyVariant(variantId, inventoryItemId) ==
    {r \in variantInventory : r.inventory_item_id = inventoryItemId}

\* variantInventoryRepo.findOne({where: {variant_id, inventory_item_id}}):
\* the rows the query matches
findOne(variantId, inventoryItemId) ==
    {r \in variantInventory :
        r.variant_id = variantId /\ r.inventory_item_id = inventoryItemId}

\* the id of a new row: it tells apart rows that hold the same pair
NewLinkId(variantId, inventoryItemId) ==
    LET same == findOne(variantId, inventoryItemId)
    IN  CHOOSE n \in 1..(Cardinality(same) + 1) : \A r \in same : r.id # n

\* listByVariant without the variant_id condition
listByVariant_Unfiltered(variantId) == variantInventory

\* variantInventoryRepo.find({where: {variant_id: In(ids)}})
listByVariant(variantId) ==
    {r \in variantInventory : r.variant_id = variantId}

\* quantityToStore without the quantity < 1 check
quantityToStore_Unchecked(quantity) ==
    IF quantity = <<>> THEN <<1>> ELSE quantity

\* the quantity attachInventoryItem stores: <<>> when it rejects the argument
quantityToStore(quantity) ==
    IF quantity = <<>> THEN <<1>>
    ELSE IF quantity[1] < 1 THEN <<>>
    ELSE quantity

\* the re-attach answering with the quantity of the call
returnExisting_WithCallQuantity(existing, quantity) ==
    IF quantity = <<>> THEN existing ELSE [existing EXCEPT !.quantity = quantity[1]]

\* `if (existing) return existing`: what a re-attach answers
returnExisting(existing, quantity) == existing

AttachResult(variantId, inventoryItemId, quantity, existing, error, value) ==
    [op |-> "attach", variantId |-> variantId,
     inventoryItemId |-> inventoryItemId, quantity |-> quantity,
     existing |-> existing, error |-> error, value |-> value]

attachInventoryItem(variantId, inventoryItemId, quantity) ==
    LET retrieveItem == Call("retrieveInventoryItem", inventoryItemId, {}, 0, undefined)
        fail(error, issued) ==
            /\ last' = AttachResult(variantId, inventoryItemId, quantity, {}, error, {})
            /\ calls' = issued
            /\ UNCHANGED variantInventory
    IN
    /\ IF variantId \notin Variants
         THEN fail("NOT_FOUND", {})
       ELSE IF ~inventoryService_
         THEN fail("TypeError", {})
       ELSE IF inventoryItemId \notin Items
         THEN fail("NOT_FOUND", {retrieveItem})
       ELSE IF findOne(variantId, inventoryItemId) # {}
         THEN \E existing \in findOne(variantId, inventoryItemId) :
                /\ last' = AttachResult(variantId, inventoryItemId, quantity,
                                        {existing}, "none",
                                        {returnExisting(existing, quantity)})
                /\ calls' = {retrieveItem}
                /\ UNCHANGED variantInventory
       ELSE IF quantityToStore(quantity) = <<>>
         THEN fail("INVALID_DATA", {retrieveItem})
       ELSE LET row == [id |-> NewLinkId(variantId, inventoryItemId),
                        variant_id |-> variantId,
                        inventory_item_id |-> inventoryItemId,
                        quantity |-> quantityToStore(quantity)[1]]
            IN /\ variantInventory' = variantInventory \cup {row}
               /\ last' = AttachResult(variantId, inventoryItemId, quantity,
                                       {}, "none", {row})
               /\ calls' = {retrieveItem}
    /\ UNCHANGED <<inventoryService_, tx, productVariant, reservations,
                   inventoryLevels, createdCount, claimedBalance>>

\* detachInventoryItem removing every row of the variant
detachInventoryItem_WholeVariant(variantId, inventoryItemId) ==
    /\ variantInventory' = {r \in variantInventory : r.variant_id # variantId}
    /\ last' = [op |-> "detach", variantId |-> variantId,
                inventoryItemId |-> inventoryItemId,
                existing |-> findOne(variantId, inventoryItemId), error |-> "none"]
    /\ calls' = {}
    /\ UNCHANGED <<inventoryService_, tx, productVariant, reservations,
                   inventoryLevels, createdCount, claimedBalance>>

detachInventoryItem(variantId, inventoryItemId) ==
    /\ IF findOne(variantId, inventoryItemId) # {}
         THEN \E existing \in findOne(variantId, inventoryItemId) :
                /\ variantInventory' = variantInventory \ {existing}
                /\ last' = [op |-> "detach", variantId |-> variantId,
                            inventoryItemId |-> inventoryItemId,
                            existing |-> {existing}, error |-> "none"]
         ELSE /\ UNCHANGED variantInventory
              /\ last' = [op |-> "detach", variantId |-> variantId,
                          inventoryItemId |-> inventoryItemId,
                          existing |-> {}, error |-> "none"]
    /\ calls' = {}
    /\ UNCHANGED <<inventoryService_, tx, productVariant, reservations,
                   inventoryLevels, createdCount, claimedBalance>>

\* ------------------------------------------------------- inventory service
SumOver(S, f(_)) ==
    LET RECURSIVE sum(_)
        sum(T) == IF T = {} THEN 0
                  ELSE LET x == CHOOSE y \in T : TRUE IN f(x) + sum(T \ {x})
    IN  sum(S)

\* quantity of the item reserved at the location
reservedQuantity(inventoryItemId, locationId) ==
    SumOver({r \in reservations : r.inventory_item_id = inventoryItemId
                                  /\ r.location_id = locationId},
            LAMBDA r : r.quantity)

\* IInventoryService.confirmInventory: is the quantity of the item available
\* (stocked and not reserved) across the locations
inventoryService_confirmInventory(inventoryItemId, locationIds, quantity) ==
    SumOver({l \in locationIds : <<inventoryItemId, l>> \in DOMAIN inventoryLevels},
            LAMBDA l : inventoryLevels[<<inventoryItemId, l>>]
                         - reservedQuantity(inventoryItemId, l)) >= quantity

\* --------------------------------------------------------- confirmInventory
\* the backorder / manage_inventory test with the two flags joined by "and"
skipsInventoryCheck_Both(variant) ==
    variant.allow_backorder /\ ~variant.manage_inventory

\* `productVariant.allow_backorder || !productVariant.manage_inventory`
skipsInventoryCheck(variant) ==
    variant.allow_backorder \/ ~variant.manage_inventory

\* the counter test with a strict comparison
hasCounterQuantity_Strict(variant, quantity) ==
    variant.inventory_quantity > quantity

\* `productVariant.inventory_quantity >= quantity`
hasCounterQuantity(variant, quantity) ==
    variant.inventory_quantity >= quantity

\* the item quantity without the link's multiplier
itemQuantity_NoMultiplier(inventoryPart, quantity) == quantity

\* `inventoryPart.quantity * quantity`
itemQuantity(inventoryPart, quantity) == inventoryPart.quantity * quantity

\* the locations confirmInventory checks
confirmLocations(salesChannelId) ==
    IF salesChannelId # undefined
      THEN Range(listLocations(salesChannelId))
      ELSE stockLocations

ConfirmResult(variantId, quantity, salesChannelId, error, value) ==
    [op |-> "confirmInventory", variantId |-> variantId, quantity |-> quantity,
     salesChannelId |-> salesChannelId, error |-> error, value |-> value]

confirmInventory(variantId, quantity, salesChannelId) ==
    LET done(error, value, issued) ==
            /\ last' = ConfirmResult(variantId, quantity, salesChannelId, error, value)
            /\ calls' = issued
        variantInventoryRows == listByVariant(variantId)
        locations == confirmLocations(salesChannelId)
        hasInventory(inventoryPart) ==
            inventoryService_confirmInventory(inventoryPart.inventory_item_id,
                locations, itemQuantity(inventoryPart, quantity))
    IN
    /\ IF variantId = undefined
         THEN done("none", TRUE, {})
       ELSE IF variantId \notin Variants
         THEN done("NOT_FOUND", FALSE, {})
       ELSE IF skipsInventoryCheck(productVariant[variantId])
         THEN done("none", TRUE, {})
       ELSE IF ~inventoryService_
         THEN done("none", hasCounterQuantity(productVariant[variantId], quantity), {})
       ELSE IF variantInventoryRows = {}
         THEN done("none", TRUE, {})
       ELSE done("none",
                 \A inventoryPart \in variantInventoryRows : hasInventory(inventoryPart),
                 {Call("confirmInventory", inventoryPart.inventory_item_id, locations,
                       itemQuantity(inventoryPart, quantity), undefined)
                    : inventoryPart \in variantInventoryRows})
    /\ UNCHANGED <<inventoryService_, tx, productVariant, variantInventory, reservations,
                   inventoryLevels, createdCount, claimedBalance>>

\* ---------------------------------------------------------- reserveQuantity
\* the reserved item quantity without the link's multiplier
reservationQuantity_NoMultiplier(inventoryPart, quantity) == quantity

\* `inventoryPart.quantity * quantity` of reserveQuantity
reservationQuantity(inventoryPart, quantity) == inventoryPart.quantity * quantity

\* the orders in which the calls of one fan-out can reach the ledger
Orderings(S) ==
    {f \in [1..Cardinality(S) -> S] : \A a, b \in DOMAIN f : f[a] = f[b] => a = b}

\* a fan-out that keeps nothing once the ledger refuses one item
fulfilled_AllOrNothing(variantInventoryRows, rejected) ==
    IF \E r \in variantInventoryRows : r.inventory_item_id \in rejected
      THEN {}
      ELSE variantInventoryRows

\* `Promise.all(variantInventory.map(async ...))`: every call is issued; the
\* rows whose reservation the ledger creates
fulfilled(variantInventoryRows, rejected) ==
    {r \in variantInventoryRows : r.inventory_item_id \notin rejected}

\* IInventoryService.createReservationItem: the record the ledger stores for
\* the n-th reservation it creates
createReservationItem(n, lineItemId, locationId, inventoryItemId, quantity) ==
    [id |-> n, created_at |-> n, type |-> "order", line_item_id |-> lineItemId,
     location_id |-> locationId, inventory_item_id |-> inventoryItemId,
     quantity |-> quantity]

\* a reserve that goes on without linked items
nothingToReserve_Never(variantInventoryRows) == FALSE

\* `if (variantInventory.length === 0) return`
nothingToReserve(variantInventoryRows) == variantInventoryRows = {}

\* no location check at all
noChannelLocations_Never(locations) == FALSE

\* `if (!locations.length)`
noChannelLocations(locations) == Len(locations) = 0

\* the last location of the list taken instead of the first
firstLocation_Last(locations) ==
    IF Len(locations) = 0 THEN undefined ELSE locations[Len(locations)]

\* `locations[0]`: undefined when the list is empty
firstLocation(locations) ==
    IF Len(locations) = 0 THEN undefined ELSE locations[1]

ReserveResult(variantId, quantity, lineItemId, locationId, salesChannelId, rejected, error) ==
    [op |-> "reserveQuantity", variantId |-> variantId, quantity |-> quantity,
     lineItemId |-> lineItemId, locationId |-> locationId,
     salesChannelId |-> salesChannelId, rejected |-> rejected, error |-> error]

\* rejected: the items whose reservation the ledger refuses in this call
reserveQuantity(variantId, quantity, lineItemId, locationId, salesChannelId, rejected) ==
    LET result(error) ==
            ReserveResult(variantId, quantity, lineItemId, locationId, salesChannelId,
                          rejected, error)
        variantInventoryRows == listByVariant(variantId)
        channelLocations == listLocations(salesChannelId)
        resolve == locationId = undefined /\ salesChannelId # undefined
        location == IF resolve THEN firstLocation(channelLocations) ELSE locationId
    IN
    IF ~inventoryService_
      THEN /\ rejected = {}
           /\ IF variantId \notin Variants
                THEN /\ last' = result("NOT_FOUND")
                     /\ UNCHANGED <<productVariant, claimedBalance>>
                ELSE /\ productVariant[variantId].inventory_quantity - quantity
                           \in -MaxInventory..MaxInventory
                     /\ productVariant' =
                          [productVariant EXCEPT ![variantId].inventory_quantity = @ - quantity]
                     /\ claimedBalance' = [claimedBalance EXCEPT ![variantId] = @ - quantity]
                     /\ last' = result("none")
           /\ calls' = {}
           /\ UNCHANGED <<inventoryService_, tx, variantInventory, reservations,
                          inventoryLevels, createdCount>>
    ELSE IF nothingToReserve(variantInventoryRows)
      THEN /\ rejected = {}
           /\ last' = result("none")
           /\ calls' = {}
           /\ UNCHANGED <<inventoryService_, tx, productVariant, variantInventory,
                          reservations, inventoryLevels, createdCount, claimedBalance>>
    ELSE IF resolve /\ noChannelLocations(channelLocations)
      THEN /\ rejected = {}
           /\ last' = result("INVALID_DATA")
           /\ calls' = {}
           /\ UNCHANGED <<inventoryService_, tx, productVariant, variantInventory,
                          reservations, inventoryLevels, createdCount, claimedBalance>>
    ELSE /\ createdCount + Cardinality(variantInventoryRows) <= MaxReservations
         /\ rejected \subseteq {r.inventory_item_id : r \in variantInventoryRows}
         /\ \E order \in Orderings(fulfilled(variantInventoryRows, rejected)) :
               reservations' = reservations \cup
                   {createReservationItem(createdCount + n, lineItemId, location,
                        order[n].inventory_item_id,
                        reservationQuantity(order[n], quantity)) : n \in DOMAIN order}
         /\ createdCount' = createdCount
               + Cardinality(fulfilled(variantInventoryRows, rejected))
         /\ calls' = {Call("createReservationItem", r.inventory_item_id, {location},
                           reservationQuantity(r, quantity), lineItemId)
                        : r \in variantInventoryRows}
         /\ last' = result(IF rejected = {} THEN "none" ELSE "LEDGER_ERROR")
         /\ UNCHANGED <<inventoryService_, tx, productVariant, variantInventory,
                        inventoryLevels, claimedBalance>>

\* ------------------------------------- reserveQuantity, Simple Mode, by steps
\* The Simple Mode branch awaits the read of the variant and then the write
\* of the counter inside atomicPhase_, called without an isolation level: the
\* transaction does not keep another caller from reading between the two.

\* `variantServiceTx.retrieve(variantId, {select: ["id", "inventory_quantity"]})`
reserveRetrieve(c, variantId, quantity) ==
    /\ ~inventoryService_
    /\ tx[c].pc \in {"idle", "confirmed"}
    /\ tx' = [tx EXCEPT ![c] =
                [pc |-> "retrieved", variantId |-> variantId, quantity |-> quantity,
                 inventory_quantity |-> productVariant[variantId].inventory_quantity]]
    /\ claimedBalance' = [claimedBalance EXCEPT ![variantId] = @ - quantity]
    /\ UNCHANGED <<inventoryService_, productVariant, variantInventory, reservations,
                   inventoryLevels, createdCount, calls, last>>

\* `variantServiceTx.update(variant.id, {inventory_quantity:
\* variant.inventory_quantity - quantity})` with the variant read before
reserveUpdate(c) ==
    /\ ~inventoryService_
    /\ tx[c].pc = "retrieved"
    /\ tx[c].inventory_quantity - tx[c].quantity \in -MaxInventory..MaxInventory
    /\ productVariant' =
         [productVariant EXCEPT ![tx[c].variantId].inventory_quantity =
             tx[c].inventory_quantity - tx[c].quantity]
    /\ tx' = [tx EXCEPT ![c] = [pc |-> "done", variantId |-> tx[c].variantId,
                                quantity |-> tx[c].quantity]]
    /\ last' = ReserveResult(tx[c].variantId, tx[c].quantity, undefined, undefined,
                             undefined, {}, "none")
    /\ calls' = {}
    /\ UNCHANGED <<inventoryService_, variantInventory, reservations, inventoryLevels,
                   createdCount, claimedBalance>>

\* ------------------------------------- adjustReservationsQuantityByLineItem
\* the counter update with the quantity added
adjustedCounter_Added(variant, quantity) == variant.inventory_quantity + quantity

\* `variant.inventory_quantity - quantity` of the Simple Mode adjustment
adjustedCounter(variant, quantity) == variant.inventory_quantity - quantity

\* the listing without the line item filter
listReservationItems_Unfiltered(lineItemId) == reservations

\* listReservationItems({line_item_id}, {order: {created_at: "DESC"}})
listReservationItems(lineItemId) ==
    {r \in reservations : r.line_item_id = lineItemId}

\* the first element of a set of reservations listed by created_at descending
mostRecent(S) == CHOOSE r \in S : \A o \in S : o.created_at <= r.created_at

\* the most recent reservation whatever the location
targetReservation_MostRecent(listed, locationId, quantity) == mostRecent(listed)

\* `reservations.find((r) => r.location_id === locationId &&
\*  r.quantity >= quantity) ?? reservations[0]`
targetReservation(listed, locationId, quantity) ==
    LET preferred == {r \in listed : r.location_id = locationId /\ r.quantity >= quantity}
    IN  IF preferred # {} THEN mostRecent(preferred) ELSE mostRecent(listed)

\* an adjustment that never deletes
deletesReservation_Never(update) == FALSE

\* `if (reservationQtyUpdate === 0)`: the reservation is deleted
deletesReservation(update) == update = 0

\* the update without the multiplier of the link
reservationQtyUpdate_NoMultiplier(reservation, quantity, productVariantInventory) ==
    reservation.quantity - quantity

\* `reservation.quantity - quantity * productVariantInventory.quantity`
reservationQtyUpdate(reservation, quantity, productVariantInventory) ==
    reservation.quantity - quantity * productVariantInventory.quantity

AdjustResult(lineItemId, variantId, locationId, quantity, error, target) ==
    [op |-> "adjustReservationsQuantityByLineItem", lineItemId |-> lineItemId,
     variantId |-> variantId, locationId |-> locationId, quantity |-> quantity,
     error |-> error, target |-> target]

adjustReservationsQuantityByLineItem(lineItemId, variantId, locationId, quantity) ==
    LET result(error, target) ==
            AdjustResult(lineItemId, variantId, locationId, quantity, error, target)
        listed == listReservationItems(lineItemId)
        listCall == Call("listReservationItems", undefined, {}, 0, lineItemId)
        reservation == targetReservation(listed, locationId, quantity)
    IN
    IF ~inventoryService_
      THEN /\ IF variantId \notin Variants
                THEN /\ last' = result("NOT_FOUND", {})
                     /\ UNCHANGED <<productVariant, claimedBalance>>
                ELSE /\ claimedBalance[variantId] - quantity \in -MaxInventory..MaxInventory
                     /\ claimedBalance' = [claimedBalance EXCEPT ![variantId] = @ - quantity]
                     /\ last' = result("none", {})
                     /\ IF ~productVariant[variantId].manage_inventory
                          THEN UNCHANGED productVariant
                          ELSE /\ adjustedCounter(productVariant[variantId], quantity)
                                     \in -MaxInventory..MaxInventory
                               /\ productVariant' =
                                    [productVariant EXCEPT ![variantId].inventory_quantity =
                                        adjustedCounter(productVariant[variantId], quantity)]
           /\ calls' = {}
           /\ UNCHANGED <<inventoryService_, tx, variantInventory, reservations,
                          inventoryLevels, createdCount>>
    ELSE IF listed = {}
      THEN /\ last' = result("none", {})
           /\ calls' = {listCall}
           /\ UNCHANGED <<inventoryService_, tx, productVariant, variantInventory,
                          reservations, inventoryLevels, createdCount, claimedBalance>>
    ELSE IF findOne(variantId, reservation.inventory_item_id) = {}
      THEN /\ last' = result("NOT_FOUND", {reservation})
           /\ calls' = {listCall}
           /\ UNCHANGED <<inventoryService_, tx, productVariant, variantInventory,
                          reservations, inventoryLevels, createdCount, claimedBalance>>
    ELSE \E productVariantInventory \in findOne(variantId, reservation.inventory_item_id) :
           LET update == reservationQtyUpdate(reservation, quantity, productVariantInventory)
           IN  /\ update \in -MaxReserved..MaxReserved
               /\ IF deletesReservation(update)
                    THEN /\ reservations' = reservations \ {reservation}
                         /\ calls' = {listCall,
                                      Call("deleteReservationItem",
                                           reservation.inventory_item_id,
                                           {reservation.location_id}, 0, lineItemId)}
                    ELSE /\ reservations' = (reservations \ {reservation})
                               \cup {[reservation EXCEPT !.quantity = update]}
                         /\ calls' = {listCall,
                                      Call("updateReservationItem",
                                           reservation.inventory_item_id,
                                           {reservation.location_id}, update, lineItemId)}
               /\ last' = result("none", {reservation})
               /\ UNCHANGED <<inventoryService_, tx, productVariant, variantInventory,
                              inventoryLevels, createdCount, claimedBalance>>

\* ------------------------------------------------ deleteReservationsByLineItem
\* IInventoryService.deleteReservationItemsByLineItem: the reservation items
\* the ledger keeps
deleteReservationItemsByLineItem(lineItemId) ==
    {r \in reservations : r.line_item_id # lineItemId}

\* the bulk delete called with the variant id
releasedLineItem_VariantId(lineItemId, variantId) == variantId

\* the argument of `deleteReservationItemsByLineItem(lineItemId)`
releasedLineItem(lineItemId, variantId) == lineItemId

\* the reservation items listed first and no bulk delete issued
releaseCalls_ListOnly(lineItemId) ==
    {Call("listReservationItems", undefined, {}, 0, lineItemId)}

\* the one ledger call of the Ledger Mode release
releaseCalls(lineItemId) ==
    {Call("deleteReservationItemsByLineItem", undefined, {}, 0, lineItemId)}

\* a release that restores one unit whatever the quantity
releasedCounter_OneUnit(variant, quantity) == variant.inventory_quantity + 1

\* `variant.inventory_quantity + quantity` of the Simple Mode release
releasedCounter(variant, quantity) == variant.inventory_quantity + quantity

ReleaseResult(lineItemId, variantId, quantity, error) ==
    [op |-> "deleteReservationsByLineItem", lineItemId |-> lineItemId,
     variantId |-> variantId, quantity |-> quantity, error |-> error]

\* the release without the `if (!this.inventoryService_)` branch
deleteReservationsByLineItem_NoModeTest(lineItemId, variantId, quantity) ==
    /\ reservations' =
          deleteReservationItemsByLineItem(releasedLineItem(lineItemId, variantId))
    /\ calls' = releaseCalls(releasedLineItem(lineItemId, variantId))
    /\ last' = ReleaseResult(lineItemId, variantId, quantity, "none")
    /\ UNCHANGED <<inventoryService_, tx, productVariant, variantInventory,
                   inventoryLevels, createdCount, claimedBalance>>

deleteReservationsByLineItem(lineItemId, variantId, quantity) ==
    LET result(error) == ReleaseResult(lineItemId, variantId, quantity, error)
    IN
    IF ~inventoryService_
      THEN /\ IF variantId \notin Variants
                THEN /\ last' = result("NOT_FOUND")
                     /\ UNCHANGED productVariant
                ELSE /\ last' = result("none")
                     /\ IF ~productVariant[variantId].manage_inventory
                          THEN UNCHANGED productVariant
                          ELSE /\ releasedCounter(productVariant[variantId], quantity)
                                     \in -MaxInventory..MaxInventory
                               /\ productVariant' =
                                    [productVariant EXCEPT ![variantId].inventory_quantity =
                                        releasedCounter(productVariant[variantId], quantity)]
           /\ calls' = {}
           /\ UNCHANGED <<inventoryService_, tx, variantInventory, reservations,
                          inventoryLevels, createdCount, claimedBalance>>
    ELSE /\ reservations' =
               deleteReservationItemsByLineItem(releasedLineItem(lineItemId, variantId))
         /\ calls' = releaseCalls(releasedLineItem(lineItemId, variantId))
         /\ last' = result("none")
         /\ UNCHANGED <<inventoryService_, tx, productVariant, variantInventory,
                        inventoryLevels, createdCount, claimedBalance>>

\* ------------------------------------------------ validateInventoryAtLocation
\* IInventoryService.listInventoryLevels: the stock levels the ledger keeps
\* for the items at the location
listInventoryLevels(inventoryItemIds, locationId) ==
    {[inventory_item_id |-> i, location_id |-> locationId,
      stocked_quantity |-> inventoryLevels[<<i, locationId>>]]
        : i \in {j \in inventoryItemIds : <<j, locationId>> \in DOMAIN inventoryLevels}}

\* `new Map(pvInventoryItems.map((pvi) => [pvi.inventory_item_id, pvi]))`
pviMap(pvInventoryItems) ==
    [i \in {pvi.inventory_item_id : pvi \in pvInventoryItems} |->
        CHOOSE pvi \in pvInventoryItems : pvi.inventory_item_id = i]

\* `pviMap[inventoryLevel.inventory_item_id]`: the bracket reads a property of
\* the Map object, and a Map keeps its entries apart from its properties, so
\* the read yields undefined ({}) for every item id
pviMapProperty(map, inventoryItemId) == {}

\* `!pvInventoryItem || pvInventoryItem.quantity * item.quantity >
\* inventoryLevel.stocked_quantity`
insufficientStock(pvInventoryItem, item, inventoryLevel) ==
    \/ pvInventoryItem = {}
    \/ \E pvi \in pvInventoryItem :
          pvi.quantity * item.quantity > inventoryLevel.stocked_quantity

\* the inner loop throws for the line item
throwsForItem(item, locationId) ==
    LET pvInventoryItems == listByVariant(item.variant_id)
        levels == listInventoryLevels(
                      {pvi.inventory_item_id : pvi \in pvInventoryItems}, locationId)
    IN  \E inventoryLevel \in levels :
           insufficientStock(
               pviMapProperty(pviMap(pvInventoryItems), inventoryLevel.inventory_item_id),
               item, inventoryLevel)

\* `items.filter((item) => item.variant_id)`
itemsToValidate(items) ==
    SelectSeq(items, LAMBDA item : item.variant_id # undefined)

ValidateResult(items, locationId, error, item) ==
    [op |-> "validateInventoryAtLocation", items |-> items,
     locationId |-> locationId, error |-> error, item |-> item]

\* a validator that takes a unit from every stock level it looked at
validateInventoryAtLocation_Deducting(items, locationId) ==
    LET toValidate == itemsToValidate(items)
        touched == {p \in DOMAIN inventoryLevels :
                      /\ p[2] = locationId
                      /\ \E k \in DOMAIN toValidate :
                            findOne(toValidate[k].variant_id, p[1]) # {}}
    IN
    /\ inventoryLevels' = [p \in DOMAIN inventoryLevels |->
                              IF p \in touched THEN inventoryLevels[p] - 1
                              ELSE inventoryLevels[p]]
    /\ last' = ValidateResult(items, locationId, "none", {})
    /\ calls' = {}
    /\ UNCHANGED <<inventoryService_, tx, productVariant, variantInventory, reservations,
                   createdCount, claimedBalance>>

validateInventoryAtLocation(items, locationId) ==
    LET toValidate == itemsToValidate(items)
        throwing == {k \in DOMAIN toValidate : throwsForItem(toValidate[k], locationId)}
        first == CHOOSE k \in throwing : \A j \in throwing : k <= j
    IN
    /\ IF ~inventoryService_
         THEN /\ last' = ValidateResult(items, locationId, "none", {})
              /\ calls' = {}
         ELSE /\ last' = IF throwing = {}
                           THEN ValidateResult(items, locationId, "none", {})
                           ELSE ValidateResult(items, locationId, "NOT_ALLOWED",
                                               {toValidate[first]})
              /\ calls' = IF Len(toValidate) = 0 THEN {}
                          ELSE {Call("listInventoryLevels", undefined, {locationId},
                                     0, undefined)}
    /\ UNCHANGED <<inventoryService_, tx, productVariant, variantInventory, reservations,
                   inventoryLevels, createdCount, claimedBalance>>

\* -------------------------------------- confirmInventory, then reserveQuantity
\* a caller asks confirmInventory in Simple Mode and goes on to reserve the
\* quantity only when the answer is true
confirmBeforeReserve(c, variantId, quantity) ==
    LET value == \/ skipsInventoryCheck(productVariant[variantId])
                 \/ hasCounterQuantity(productVariant[variantId], quantity)
    IN
    /\ ~inventoryService_
    /\ tx[c].pc = "idle"
    /\ tx' = [tx EXCEPT ![c] =
                [pc |-> IF value THEN "confirmed" ELSE "declined",
                 variantId |-> variantId, quantity |-> quantity]]
    /\ last' = ConfirmResult(variantId, quantity, undefined, "none", value)
    /\ calls' = {}
    /\ UNCHANGED <<inventoryService_, productVariant, variantInventory, reservations,
                   inventoryLevels, createdCount, claimedBalance>>

\* ------------------------------------------- attachInventoryItem, by steps
\* attachInventoryItem awaits the lookup of the pair and then the save of the
\* new row; nothing keeps another caller from looking up between the two.

\* the checks and `variantInventoryRepo.findOne({where: {variant_id,
\* inventory_item_id}})` of a call for a known variant and item
attachFindOne(c, variantId, inventoryItemId, quantity) ==
    LET existing == findOne(variantId, inventoryItemId)
        done(error) == [pc |-> "done", variantId |-> variantId,
                        inventoryItemId |-> inventoryItemId, error |-> error]
    IN
    /\ inventoryService_
    /\ tx[c].pc = "idle"
    /\ tx' = [tx EXCEPT ![c] =
                IF existing # {} THEN done("none")
                ELSE IF quantityToStore(quantity) = <<>> THEN done("INVALID_DATA")
                ELSE [pc |-> "creating", variantId |-> variantId,
                      inventoryItemId |-> inventoryItemId,
                      quantity |-> quantityToStore(quantity)[1]]]
    /\ calls' = {Call("retrieveInventoryItem", inventoryItemId, {}, 0, undefined)}
    /\ UNCHANGED <<inventoryService_, productVariant, variantInventory, reservations,
                   inventoryLevels, createdCount, claimedBalance, last>>

\* `variantInventoryRepo.save(variantInventory)` of the row created after
\* the lookup found none
attachSave(c) ==
    LET row == [id |-> NewLinkId(tx[c].variantId, tx[c].inventoryItemId),
                variant_id |-> tx[c].variantId,
                inventory_item_id |-> tx[c].inventoryItemId,
                quantity |-> tx[c].quantity]
    IN
    /\ inventoryService_
    /\ tx[c].pc = "creating"
    /\ variantInventory' = variantInventory \cup {row}
    /\ tx' = [tx EXCEPT ![c] = [pc |-> "done", variantId |-> tx[c].variantId,
                                inventoryItemId |-> tx[c].inventoryItemId,
                                error |-> "none"]]
    /\ last' = AttachResult(tx[c].variantId, tx[c].inventoryItemId, <<tx[c].quantity>>,
                            {}, "none", {row})
    /\ calls' = {}
    /\ UNCHANGED <<inventoryService_, productVariant, reservations, inventoryLevels,
                   createdCount, claimedBalance>>

\* --------------------------------------------------------------- initial state
Flags == [allow_backorder : BOOLEAN, manage_inventory : BOOLEAN]

Variant(flags, qty) ==
    [allow_backorder |-> flags.allow_backorder,
     manage_inventory |-> flags.manage_inventory,
     inventory_quantity |-> qty]

NoCall == [op |-> "none", error |-> "none"]

\* no caller has a call in flight
Idle == [c \in Callers |-> [pc |-> "idle"]]

\* link tables the service can have built: one row per pair, quantity >= 1
LinkTables ==
    LET Pairs == Variants \X Items
    IN  {{[id |-> 1, variant_id |-> p[1], inventory_item_id |-> p[2], quantity |-> f[p]]
          : p \in S}
         : S \in SUBSET Pairs, f \in [Pairs -> 1..MaxQuantity]}

\* Link table maintenance: attach and detach on an empty table, either mode.
InitLinks ==
    /\ inventoryService_ \in BOOLEAN
    /\ productVariant = [v \in Variants |->
                            Variant([allow_backorder |-> FALSE,
                                     manage_inventory |-> TRUE], 0)]
    /\ variantInventory = {}
    /\ reservations = {}
    /\ inventoryLevels = [p \in Items \X Locations |-> 0]
    /\ createdCount = 0
    /\ claimedBalance = [v \in Variants |-> 0]
    /\ calls = {}
    /\ tx = Idle
    /\ last = NoCall

NextLinks ==
    \/ \E v \in VariantIds, i \in ItemIds, q \in Optional(-1..MaxQuantity) :
          attachInventoryItem(v, i, q)
    \/ \E v \in VariantIds, i \in ItemIds : detachInventoryItem(v, i)

SpecLinks == InitLinks /\ [][NextLinks]_vars

\* Availability checks: confirmInventory applied once to a store drawn from
\* the stores the service can hold.  Either every flag combination, counter
\* and link table with an empty or a full stock, or managed variants with
\* every link table and every stock level.
InitConfirm ==
    /\ inventoryService_ \in BOOLEAN
    /\ variantInventory \in (IF inventoryService_ THEN LinkTables ELSE {{}})
    /\ \/ /\ \E f \in [Variants -> Flags], q \in [Variants -> 0..MaxInventory] :
               /\ inventoryService_ => \A v \in Variants : q[v] = q["v1"]
               /\ productVariant = [v \in Variants |-> Variant(f[v], q[v])]
          /\ \E n \in {0, MaxStock} :
               inventoryLevels = [p \in Items \X Locations |-> n]
       \/ /\ inventoryService_
          /\ productVariant = [v \in Variants |->
                                  Variant([allow_backorder |-> FALSE,
                                           manage_inventory |-> TRUE], 0)]
          /\ inventoryLevels \in [Items \X Locations -> 0..MaxStock]
    /\ reservations = {}
    /\ createdCount = 0
    /\ claimedBalance = [v \in Variants |-> productVariant[v].inventory_quantity]
    /\ calls = {}
    /\ tx = Idle
    /\ last = NoCall

NextConfirm ==
    /\ last.op = "none"
    /\ \E v \in VariantIds \cup {undefined}, q \in 1..MaxQuantity,
          sc \in SalesChannels \cup {undefined} :
          confirmInventory(v, q, sc)

SpecConfirm == InitConfirm /\ [][NextConfirm]_vars

\* reservation stores an earlier reserve call can have left: none, or one
\* reservation of line item li2
PriorReservations ==
    {{}} \cup {{createReservationItem(1, "li2", l, i, 1)} : l \in Locations, i \in Items}

\* Reservations in Ledger Mode: reserveQuantity applied once to a link table
\* and a reservation store the service can have built.
InitReserve ==
    /\ inventoryService_ = TRUE
    /\ productVariant = [v \in Variants |->
                            Variant([allow_backorder |-> FALSE,
                                     manage_inventory |-> TRUE], 0)]
    /\ variantInventory \in LinkTables
    /\ reservations \in PriorReservations
    /\ inventoryLevels = [p \in Items \X Locations |-> 0]
    /\ createdCount = Cardinality(reservations)
    /\ claimedBalance = [v \in Variants |-> 0]
    /\ calls = {}
    /\ tx = Idle
    /\ last = NoCall

NextReserve ==
    /\ last.op = "none"
    /\ \E v \in VariantIds, q \in 1..MaxQuantity, li \in LineItems,
          loc \in Locations \cup {undefined}, sc \in SalesChannels \cup {undefined},
          rejected \in SUBSET Items :
          reserveQuantity(v, q, li, loc, sc, rejected)

SpecReserve == InitReserve /\ [][NextReserve]_vars

\* Simple Mode counter: reserve and adjust calls, one at a time, on a variant
\* v1 with every flag combination and a managed variant v2, with every
\* initial counter.
InitCounter ==
    /\ inventoryService_ = FALSE
    /\ \E f \in [Variants -> Flags], q \in [Variants -> 0..MaxInventory] :
          /\ f["v2"].manage_inventory
          /\ productVariant = [v \in Variants |-> Variant(f[v], q[v])]
    /\ variantInventory = {}
    /\ reservations = {}
    /\ inventoryLevels = [p \in Items \X Locations |-> 0]
    /\ createdCount = 0
    /\ claimedBalance = [v \in Variants |-> productVariant[v].inventory_quantity]
    /\ calls = {}
    /\ tx = Idle
    /\ last = NoCall

NextCounter ==
    \/ \E v \in VariantIds, q \in 1..MaxQuantity :
          reserveQuantity(v, q, "li1", undefined, undefined, {})
    \/ \E v \in VariantIds, delta \in -MaxQuantity..MaxQuantity :
          adjustReservationsQuantityByLineItem("li1", v, "loc1", delta)

SpecCounter == InitCounter /\ [][NextCounter]_vars

\* link tables of the adjustment runs: v1 carries any bill of materials, v2
\* is unlinked or consumes one unit of i2
LedgerLinkTables ==
    {t \in LinkTables :
        \A r \in t : r.variant_id = "v2" => (r.inventory_item_id = "i2" /\ r.quantity = 1)}

\* the reservation items one reserveQuantity call leaves on the current link
\* table when the ledger has created n0 items before; {} stands for no call
ReserveOutcomes(n0) ==
    {{}} \cup UNION {
        {{createReservationItem(n0 + k, li, loc, order[k].inventory_item_id,
                                reservationQuantity(order[k], q)) : k \in DOMAIN order}
            : order \in Orderings(listByVariant(v))}
        : v \in Variants, q \in 1..MaxQuantity, li \in LineItems, loc \in Locations}

\* the reservation stores up to two reserveQuantity calls leave
ReservationStores ==
    UNION {{first \cup second : second \in ReserveOutcomes(Cardinality(first))}
              : first \in ReserveOutcomes(0)}

\* Ledger Mode adjustments and releases: one call applied to a link table
\* and a reservation store the service can have built.
InitLedger ==
    /\ inventoryService_ = TRUE
    /\ productVariant = [v \in Variants |->
                            Variant([allow_backorder |-> FALSE,
                                     manage_inventory |-> TRUE], 0)]
    /\ variantInventory \in LedgerLinkTables
    /\ reservations \in ReservationStores
    /\ inventoryLevels = [p \in Items \X Locations |-> 0]
    /\ createdCount = Cardinality(reservations)
    /\ claimedBalance = [v \in Variants |-> 0]
    /\ calls = {}
    /\ tx = Idle
    /\ last = NoCall

NextLedger ==
    /\ last.op = "none"
    /\ \/ \E li \in LineItems, v \in VariantIds, loc \in Locations,
             delta \in -MaxQuantity..MaxQuantity :
             adjustReservationsQuantityByLineItem(li, v, loc, delta)
       \/ \E li \in LineItems, v \in Variants, q \in 1..MaxQuantity :
             deleteReservationsByLineItem(li, v, q)

SpecLedger == InitLedger /\ [][NextLedger]_vars

\* longest list of line items passed to the validator
MaxLineItems == 2

\* fulfillment line items: a variant and a quantity, or a line without variant
FulfillmentItems ==
    [variant_id : Variants, quantity : 1..MaxQuantity]
        \cup {[variant_id |-> undefined, quantity |-> 1]}

FulfillmentLists ==
    UNION {[1..n -> FulfillmentItems] : n \in 0..MaxLineItems}

\* stock levels the ledger can hold: an item has a level at a location or
\* none; i2 is stocked at loc1 only
StockLevels ==
    UNION {[D -> 0..MaxStock]
              : D \in SUBSET ((Items \X Locations) \ {<<"i2", "loc2">>})}

\* Location stock validation: one call on a link table and stock levels the
\* service can face; without a ledger no link was attached and no level kept.
InitValidate ==
    /\ inventoryService_ \in BOOLEAN
    /\ productVariant = [v \in Variants |->
                            Variant([allow_backorder |-> FALSE,
                                     manage_inventory |-> TRUE], 0)]
    /\ variantInventory \in (IF inventoryService_ THEN LedgerLinkTables ELSE {{}})
    /\ reservations = {}
    /\ inventoryLevels \in (IF inventoryService_ THEN StockLevels ELSE {<<>>})
    /\ createdCount = 0
    /\ claimedBalance = [v \in Variants |-> 0]
    /\ calls = {}
    /\ tx = Idle
    /\ last = NoCall

NextValidate ==
    /\ last.op = "none"
    /\ \E items \in FulfillmentLists, loc \in Locations :
          validateInventoryAtLocation(items, loc)

SpecValidate == InitValidate /\ [][NextValidate]_vars

\* Simple Mode reserve calls in flight together: every caller reserves once,
\* on any variant, and the read and write steps of the callers interleave.
InitConcurrentReserve ==
    /\ inventoryService_ = FALSE
    /\ \E q \in [Variants -> 0..MaxInventory] :
          productVariant = [v \in Variants |->
                               Variant([allow_backorder |-> FALSE,
                                        manage_inventory |-> TRUE], q[v])]
    /\ variantInventory = {}
    /\ reservations = {}
    /\ inventoryLevels = <<>>
    /\ createdCount = 0
    /\ claimedBalance = [v \in Variants |-> productVariant[v].inventory_quantity]
    /\ calls = {}
    /\ tx = Idle
    /\ last = NoCall

NextConcurrentReserve ==
    \/ \E c \in Callers, v \in Variants, q \in 1..MaxQuantity : reserveRetrieve(c, v, q)
    \/ \E c \in Callers : reserveUpdate(c)

SpecConcurrentReserve == InitConcurrentReserve /\ [][NextConcurrentReserve]_vars

\* Both modes, every exposed operation: one call on a store the service can
\* hold.  Without a ledger there are no links, reservations or stock levels;
\* v1 has every flag combination and counter, v2 is managed with one unit.
InitModes ==
    /\ inventoryService_ \in BOOLEAN
    /\ \E f \in Flags, q \in 0..MaxInventory :
          productVariant =
              [v \in Variants |->
                  IF v = "v1" THEN Variant(f, q)
                  ELSE Variant([allow_backorder |-> FALSE, manage_inventory |-> TRUE], 1)]
    /\ variantInventory \in (IF inventoryService_ THEN LedgerLinkTables ELSE {{}})
    /\ reservations \in (IF inventoryService_ THEN PriorReservations ELSE {{}})
    /\ inventoryLevels = IF inventoryService_
                           THEN [p \in Items \X Locations |-> 1] ELSE <<>>
    /\ createdCount = Cardinality(reservations)
    /\ claimedBalance = [v \in Variants |-> productVariant[v].inventory_quantity]
    /\ calls = {}
    /\ tx = Idle
    /\ last = NoCall

NextModes ==
    /\ last.op = "none"
    /\ \/ \E v \in VariantIds, q \in 1..MaxQuantity, sc \in {undefined, "sc1"} :
             confirmInventory(v, q, sc)
       \/ \E v \in VariantIds, q \in 1..MaxQuantity, li \in LineItems, loc \in Locations :
             reserveQuantity(v, q, li, loc, undefined, {})
       \/ \E li \in LineItems, v \in VariantIds, loc \in Locations,
             delta \in -MaxQuantity..MaxQuantity :
             adjustReservationsQuantityByLineItem(li, v, loc, delta)
       \/ \E li \in LineItems, v \in VariantIds, q \in 1..MaxQuantity :
             deleteReservationsByLineItem(li, v, q)
       \/ \E item \in FulfillmentItems, loc \in Locations :
             validateInventoryAtLocation(<<item>>, loc)
       \/ \E v \in VariantIds, i \in ItemIds, q \in Optional(0..MaxQuantity) :
             attachInventoryItem(v, i, q)
       \/ \E v \in VariantIds, i \in ItemIds : detachInventoryItem(v, i)

SpecModes == InitModes /\ [][NextModes]_vars

\* Simple Mode callers that reserve only what confirmInventory confirmed, on
\* managed variants without backorder; their steps interleave.
InitConfirmReserve ==
    /\ inventoryService_ = FALSE
    /\ \E q \in [Variants -> 0..MaxInventory] :
          productVariant = [v \in Variants |->
                               Variant([allow_backorder |-> FALSE,
                                        manage_inventory |-> TRUE], q[v])]
    /\ variantInventory = {}
    /\ reservations = {}
    /\ inventoryLevels = <<>>
    /\ createdCount = 0
    /\ claimedBalance = [v \in Variants |-> productVariant[v].inventory_quantity]
    /\ calls = {}
    /\ tx = Idle
    /\ last = NoCall

NextConfirmReserve ==
    \/ \E c \in Callers, v \in Variants, q \in 1..MaxQuantity :
          confirmBeforeReserve(c, v, q)
    \/ \E c \in Callers :
          /\ tx[c].pc = "confirmed"
          /\ reserveRetrieve(c, tx[c].variantId, tx[c].quantity)
    \/ \E c \in Callers : reserveUpdate(c)

SpecConfirmReserve == InitConfirmReserve /\ [][NextConfirmReserve]_vars

\* Ledger Mode attach calls in flight together on a link table the service
\* can have built: every caller attaches once and the steps interleave.
InitConcurrentAttach ==
    /\ inventoryService_ = TRUE
    /\ productVariant = [v \in Variants |->
                            Variant([allow_backorder |-> FALSE,
                                     manage_inventory |-> TRUE], 0)]
    /\ variantInventory \in LedgerLinkTables
    /\ reservations = {}
    /\ inventoryLevels = [p \in Items \X Locations |-> 0]
    /\ createdCount = 0
    /\ claimedBalance = [v \in Variants |-> 0]
    /\ calls = {}
    /\ tx = Idle
    /\ last = NoCall

NextConcurrentAttach ==
    \/ \E c \in Callers, v \in Variants, i \in Items, q \in Optional(0..MaxQuantity) :
          attachFindOne(c, v, i, q)
    \/ \E c \in Callers : attachSave(c)

SpecConcurrentAttach == InitConcurrentAttach /\ [][NextConcurrentAttach]_vars

\* Simple Mode round trip: a reserve on a variant with any flags and counter,
\* then the release of the same quantity for the same line item and variant.
InitRoundTrip ==
    /\ inventoryService_ = FALSE
    /\ \E f \in [Variants -> Flags], q \in [Variants -> 0..MaxInventory] :
          productVariant = [v \in Variants |-> Variant(f[v], q[v])]
    /\ variantInventory = {}
    /\ reservations = {}
    /\ inventoryLevels = <<>>
    /\ createdCount = 0
    /\ claimedBalance = [v \in Variants |-> productVariant[v].inventory_quantity]
    /\ calls = {}
    /\ tx = Idle
    /\ last = NoCall

NextRoundTrip ==
    \/ /\ last.op = "none"
       /\ \E v \in Variants, q \in 1..MaxQuantity, li \in LineItems :
             reserveQuantity(v, q, li, undefined, undefined, {})
    \/ /\ last.op = "reserveQuantity" /\ last.error = "none"
       /\ deleteReservationsByLineItem(last.lineItemId, last.variantId, last.quantity)

SpecRoundTrip == InitRoundTrip /\ [][NextRoundTrip]_vars

\* ------------------------------------------------------------------ claims
\* the rows of the link table that belong to the variant
LinksOfVariant(v) == {r \in variantInventory : r.variant_id = v}

\* the last operation was confirmInventory on a variant the store knows
ConfirmedKnown == last.op = "confirmInventory" /\ last.variantId \in Variants

\* the variant is inventory-managed and does not allow backorders
Tracked(v) == productVariant[v].manage_inventory /\ ~productVariant[v].allow_backorder

\* the locations the claim resolves for a sales channel argument
ResolvedLocations(sc) ==
    IF sc = undefined THEN Locations ELSE {listLocations(sc)[k] : k \in DOMAIN listLocations(sc)}

\* C1: for every variant with allow_backorder = true or manage_inventory =
\* false, confirmInventory returns true for every requested quantity, in both
\* modes, whatever the counter, links, locations or availability are.
C1_UntrackedAlwaysConfirmed ==
    (ConfirmedKnown /\ ~Tracked(last.variantId))
        => (last.error = "none" /\ last.value = TRUE)

\* confirmed although the ledger holds no stock for the linked items, and
\* confirmed although the counter is below the request
C1_Witness ==
    /\ ConfirmedKnown /\ ~Tracked(last.variantId) /\ last.value = TRUE
    /\ \/ /\ inventoryService_
          /\ LinksOfVariant(last.variantId) # {}
          /\ \A p \in Items \X Locations : inventoryLevels[p] = 0
       \/ /\ ~inventoryService_
          /\ productVariant[last.variantId].inventory_quantity < last.quantity

\* C2: in Ledger Mode, for a managed non-backorder variant with at least one
\* link, confirmInventory asks the ledger, for every linked item, whether
\* Q * link.quantity is available across the resolved locations, and returns
\* true exactly when every linked item confirms.
C2_EveryLinkedItemConfirms ==
    (/\ ConfirmedKnown /\ inventoryService_ /\ Tracked(last.variantId)
     /\ LinksOfVariant(last.variantId) # {})
        => /\ last.error = "none"
           /\ calls = {[fn |-> "confirmInventory",
                        inventory_item_id |-> r.inventory_item_id,
                        location_ids |-> ResolvedLocations(last.salesChannelId),
                        quantity |-> last.quantity * r.quantity,
                        line_item_id |-> undefined]
                         : r \in LinksOfVariant(last.variantId)}
           /\ last.value =
                (\A c \in calls : inventoryService_confirmInventory(
                                      c.inventory_item_id, c.location_ids, c.quantity))

\* two linked items, one fully available and one short: the answer is false
C2_Witness ==
    /\ ConfirmedKnown /\ inventoryService_ /\ Tracked(last.variantId)
    /\ last.value = FALSE
    /\ \E c, d \in calls :
          /\ c.inventory_item_id # d.inventory_item_id
          /\ c.quantity > last.quantity
          /\ inventoryService_confirmInventory(c.inventory_item_id, c.location_ids, c.quantity)
          /\ ~inventoryService_confirmInventory(d.inventory_item_id, d.location_ids, d.quantity)

\* C3: in Ledger Mode, for every variant with zero linked items,
\* confirmInventory returns true for every requested quantity and makes no
\* availability query to the ledger.
C3_NoLinksConfirmed ==
    (ConfirmedKnown /\ inventoryService_ /\ LinksOfVariant(last.variantId) = {})
        => (last.error = "none" /\ last.value = TRUE /\ calls = {})

\* a tracked variant without links is confirmed while the other variant's
\* linked items are out of stock
C3_Witness ==
    /\ ConfirmedKnown /\ inventoryService_ /\ Tracked(last.variantId)
    /\ LinksOfVariant(last.variantId) = {} /\ variantInventory # {}
    /\ \A p \in Items \X Locations : inventoryLevels[p] = 0
    /\ last.value = TRUE /\ calls = {}

\* C4: in Simple Mode, for a variant with manage_inventory = true and
\* allow_backorder = false, confirmInventory(V, Q) returns true exactly when
\* inventory_quantity >= Q, and it does not change inventory_quantity.
C4_SimpleCounterCheck ==
    [][(/\ last'.op = "confirmInventory" /\ last'.variantId \in Variants
        /\ ~inventoryService_ /\ Tracked(last'.variantId))
          => /\ last'.error = "none"
             /\ last'.value =
                  (productVariant[last'.variantId].inventory_quantity >= last'.quantity)
             /\ productVariant' = productVariant]_vars

\* the counter equals the requested quantity and the answer is true
C4_Witness ==
    /\ ConfirmedKnown /\ ~inventoryService_ /\ Tracked(last.variantId)
    /\ productVariant[last.variantId].inventory_quantity = last.quantity
    /\ last.value = TRUE
\* the rows of the link table that hold the pair
LinksOfPair(v, i) ==
    {r \in variantInventory : r.variant_id = v /\ r.inventory_item_id = i}

\* C5: after any sequence of attach and detach calls the link table holds at
\* most one link per (variant_id, inventory_item_id) pair and every stored
\* link has quantity >= 1.
C5_OneLinkPerPair ==
    /\ \A v \in VariantIds, i \in ItemIds : Cardinality(LinksOfPair(v, i)) <= 1
    /\ \A r \in variantInventory : r.quantity >= 1

\* a detach has removed a link and links of both variants remain
C5_Witness ==
    /\ last.op = "detach" /\ last.existing # {}
    /\ \A v \in Variants : \E r \in variantInventory : r.variant_id = v

\* C6: attach on an already linked pair returns the existing link with its
\* stored quantity and leaves the whole link table unchanged, whatever
\* quantity (or none) the call carries.
C6_AttachIdempotent ==
    [][(last'.op = "attach" /\ LinksOfPair(last'.variantId, last'.inventoryItemId) # {})
          => /\ last'.error = "none"
             /\ last'.value = LinksOfPair(last'.variantId, last'.inventoryItemId)
             /\ variantInventory' = variantInventory]_vars

\* a re-attach with a quantity different from the stored one returned the link
C6_Witness ==
    /\ last.op = "attach" /\ last.existing # {} /\ last.error = "none"
    /\ last.quantity # <<>>
    /\ \A r \in last.existing : r.quantity # last.quantity[1] /\ r \in variantInventory

\* C7: every attach call that supplies a quantity < 1 fails with
\* InvalidQuantity (INVALID_DATA) and leaves the link table unchanged, whether
\* or not the pair is already linked; an attach that omits the quantity on an
\* unlinked pair stores quantity 1.  Stated for calls that name an existing
\* variant and item with the inventory service present.
C7_InvalidQuantityAlwaysFails ==
    [][(/\ last'.op = "attach"
        /\ inventoryService_
        /\ last'.variantId \in Variants
        /\ last'.inventoryItemId \in Items)
          => /\ (last'.quantity # <<>> /\ last'.quantity[1] < 1)
                   => (last'.error = "INVALID_DATA" /\ variantInventory' = variantInventory)
             /\ (/\ last'.quantity = <<>>
                 /\ LinksOfPair(last'.variantId, last'.inventoryItemId) = {})
                   => \E r \in variantInventory' \ variantInventory :
                         /\ r.variant_id = last'.variantId
                         /\ r.inventory_item_id = last'.inventoryItemId
                         /\ r.quantity = 1]_vars

\* C8: detach of a pair that is not linked succeeds and leaves the link table
\* unchanged; detach of a linked pair removes exactly that link.
C8_DetachFrame ==
    [][last'.op = "detach"
          => /\ last'.error = "none"
             /\ variantInventory' =
                  variantInventory \ LinksOfPair(last'.variantId, last'.inventoryItemId)]_vars

\* a detach of an unlinked pair has run on a table that holds links
C8_Witness ==
    /\ last.op = "detach" /\ last.existing = {}
    /\ LinksOfPair(last.variantId, last.inventoryItemId) = {}
    /\ variantInventory # {}

\* C9: in Ledger Mode, a successful reserve creates exactly one reservation
\* per item linked to the variant, each with quantity Q * link.quantity of
\* that item, type "order", the given line item, and all at one location; it
\* creates no other reservation and leaves the existing ones alone.
C9_ReservePerLinkedItem ==
    [][(last'.op = "reserveQuantity" /\ inventoryService_ /\ last'.error = "none")
          => LET created == reservations' \ reservations
                 links == LinksOfVariant(last'.variantId)
             IN  /\ reservations \subseteq reservations'
                 /\ Cardinality(created) = Cardinality(links)
                 /\ \A l \in links : \E n \in created :
                       /\ n.inventory_item_id = l.inventory_item_id
                       /\ n.quantity = last'.quantity * l.quantity
                 /\ \A n \in created :
                       /\ n.type = "order"
                       /\ n.line_item_id = last'.lineItemId
                       /\ \A m \in created : m.location_id = n.location_id]_vars

\* a reserve for a variant linked to two items with different multipliers,
\* one of them above 1, succeeded next to an earlier reservation
C9_Witness ==
    /\ last.op = "reserveQuantity" /\ inventoryService_ /\ last.error = "none"
    /\ last.quantity > 1
    /\ \E a, b \in LinksOfVariant(last.variantId) : a.quantity > b.quantity
    /\ Cardinality(reservations) = 3
    /\ \E r \in reservations : r.line_item_id # last.lineItemId

\* C10: in Simple Mode, for a variant with manage_inventory = true, after any
\* sequence of reserve(q) and adjustByLineItem(delta) calls run one at a time,
\* inventory_quantity equals its initial value minus the sum of all q minus
\* the sum of all delta.
C10_CounterIsInitialMinusRequests ==
    ~inventoryService_ =>
        \A v \in Variants :
            productVariant[v].manage_inventory
                => productVariant[v].inventory_quantity = claimedBalance[v]

\* a negative delta has restored stock of a managed variant whose counter
\* stands below its value before the reserve and adjust calls
C10_Witness ==
    /\ ~inventoryService_
    /\ last.op = "adjustReservationsQuantityByLineItem" /\ last.error = "none"
    /\ last.quantity < 0
    /\ last.variantId \in Variants
    /\ productVariant[last.variantId].manage_inventory
    /\ productVariant[last.variantId].inventory_quantity = -1

\* the reservation items of the line item
ReservationsOfLineItem(li) == {r \in reservations : r.line_item_id = li}

\* C11: in Ledger Mode, whenever adjustByLineItem brings the targeted
\* reservation's quantity to exactly zero it deletes that reservation; no
\* adjustByLineItem call leaves a reservation with quantity 0 in the ledger.
C11_ZeroQuantityDeleted ==
    [][(last'.op = "adjustReservationsQuantityByLineItem" /\ inventoryService_)
          => \A r \in reservations' : r.quantity = 0 => r \in reservations]_vars

\* an adjustment by a positive delta has removed its target from the ledger
C11_Witness ==
    /\ last.op = "adjustReservationsQuantityByLineItem" /\ inventoryService_
    /\ last.error = "none" /\ last.quantity > 0
    /\ \E t \in last.target :
          /\ t.quantity > 1
          /\ \A r \in reservations : r.id # t.id
    /\ reservations # {}

\* C12: in Ledger Mode, after release(lineItemId, V, quantity) no reservation
\* with that lineItemId remains, whatever the quantity argument is, and the
\* reservations of every other line item are unchanged.
C12_ReleaseRemovesLineItem ==
    [][(last'.op = "deleteReservationsByLineItem" /\ inventoryService_)
          => /\ last'.error = "none"
             /\ reservations' =
                  {r \in reservations : r.line_item_id # last'.lineItemId}]_vars

\* a release for quantity 1 has removed two reservation items of its line
\* item, one of them of more than one unit, and another line item keeps its own
C12_Witness ==
    /\ last.op = "deleteReservationsByLineItem" /\ inventoryService_
    /\ last.quantity = 1
    /\ ReservationsOfLineItem(last.lineItemId) = {}
    /\ Cardinality(reservations) = 1
    /\ createdCount = 3

\* C13 as stated: in Ledger Mode, release for a line item that has no
\* reservations raises no error, changes no ledger state, and makes no ledger
\* call other than a listing call.
C13_ReleaseOnlyLists ==
    [][(/\ last'.op = "deleteReservationsByLineItem" /\ inventoryService_
        /\ ReservationsOfLineItem(last'.lineItemId) = {})
          => /\ last'.error = "none"
             /\ reservations' = reservations
             /\ \A c \in calls' : c.fn = "listReservationItems"]_vars

\* C13 as amended: in Ledger Mode, release for a line item that has no
\* reservations raises no error, changes no ledger state, and makes exactly
\* one ledger call, the bulk delete for that line item.
C13_ReleaseWithoutReservations ==
    [][(/\ last'.op = "deleteReservationsByLineItem" /\ inventoryService_
        /\ ReservationsOfLineItem(last'.lineItemId) = {})
          => /\ last'.error = "none"
             /\ reservations' = reservations
             /\ calls' = {[fn |-> "deleteReservationItemsByLineItem",
                           inventory_item_id |-> undefined, location_ids |-> {},
                           quantity |-> 0, line_item_id |-> last'.lineItemId]}]_vars

\* a release ran for a line item without reservations while the other line
\* item holds some
C13_Witness ==
    /\ last.op = "deleteReservationsByLineItem" /\ inventoryService_
    /\ ReservationsOfLineItem(last.lineItemId) = {}
    /\ Cardinality(reservations) = createdCount
    /\ reservations # {}

\* the last operation was validateAtLocation in Ledger Mode
ValidatedInLedger == last.op = "validateInventoryAtLocation" /\ inventoryService_

\* the location holds a stock level of the row's item that covers the row's
\* multiplier times the line quantity
StockedFor(r, quantity, loc) ==
    /\ <<r.inventory_item_id, loc>> \in DOMAIN inventoryLevels
    /\ r.quantity * quantity <= inventoryLevels[<<r.inventory_item_id, loc>>]

\* C14: in Ledger Mode, validateAtLocation(lineItems, locationId) fails with
\* InsufficientStock whenever some line item carrying a variant has a linked
\* item that has no stock level at locationId or has stockedQuantity below
\* link.quantity * lineItem.quantity.
C14_ValidateFailsOnShortage ==
    (/\ ValidatedInLedger
     /\ \E k \in DOMAIN last.items :
           /\ last.items[k].variant_id # undefined
           /\ \E r \in LinksOfVariant(last.items[k].variant_id) :
                 ~StockedFor(r, last.items[k].quantity, last.locationId))
        => last.error = "NOT_ALLOWED"

\* C15: in Ledger Mode, validateAtLocation(lineItems, locationId) returns
\* without error when, for every line item carrying a variant, every linked
\* item has a stock level at locationId with link.quantity * lineItem.quantity
\* <= stockedQuantity.
C15_ValidatePassesWhenStocked ==
    (/\ ValidatedInLedger
     /\ \A k \in DOMAIN last.items :
           last.items[k].variant_id # undefined
             => \A r \in LinksOfVariant(last.items[k].variant_id) :
                   StockedFor(r, last.items[k].quantity, last.locationId))
        => last.error = "none"

\* C16: in Simple Mode, reserve decrements atomically: for every interleaving
\* of the read and write steps of concurrent reserve calls on the same variant
\* with quantities q1..qn, the final inventory_quantity equals the initial
\* value minus q1 + ... + qn.
C16_NoLostDecrement ==
    (\A c \in Callers : tx[c].pc = "done")
        => \A v \in Variants :
              productVariant[v].inventory_quantity = claimedBalance[v]

\* the last operation was a Ledger Mode reserve for a variant with links,
\* called without a location
ReservedWithoutLocation(l) ==
    /\ l.op = "reserveQuantity" /\ inventoryService_
    /\ LinksOfVariant(l.variantId) # {}
    /\ l.locationId = undefined

\* no sales channel is given, or the channel given has no location
NoResolvableChannel(sc) == sc = undefined \/ ResolvedLocations(sc) = {}

\* C17: in Ledger Mode, reserve for a variant with at least one link fails
\* with LocationRequired, and creates no reservation, when neither locationId
\* nor a resolvable salesChannelId is supplied and more than one stock location
\* exists.
C17_LocationRequired ==
    [][(/\ ReservedWithoutLocation(last')
        /\ NoResolvableChannel(last'.salesChannelId)
        /\ Cardinality(stockLocations) > 1)
          => /\ last'.error \notin {"none", "LEDGER_ERROR"}
             /\ reservations' = reservations]_vars

\* C18: in Ledger Mode, reserve for a variant with at least one link, called
\* without locationId and with a salesChannelId whose channel has no
\* associated locations, fails with an error and creates no reservation.
C18_NoLocationForChannel ==
    [][(/\ ReservedWithoutLocation(last')
        /\ last'.salesChannelId # undefined
        /\ ResolvedLocations(last'.salesChannelId) = {})
          => /\ last'.error # "none"
             /\ reservations' = reservations
             /\ calls' = {}]_vars

\* a reserve through a channel without locations failed for a variant linked
\* to two items, next to an earlier reservation that is kept
C18_Witness ==
    /\ ReservedWithoutLocation(last)
    /\ last.salesChannelId # undefined
    /\ ResolvedLocations(last.salesChannelId) = {}
    /\ last.error = "INVALID_DATA"
    /\ Cardinality(LinksOfVariant(last.variantId)) = 2
    /\ Cardinality(reservations) = 1

\* C19: in Ledger Mode, confirmInventory for a managed non-backorder variant
\* with at least one link, called with a salesChannelId whose channel has no
\* associated locations, fails with NoLocationForChannel instead of returning
\* a boolean.
C19_ConfirmNoLocationForChannel ==
    (/\ ConfirmedKnown /\ inventoryService_
     /\ Tracked(last.variantId)
     /\ LinksOfVariant(last.variantId) # {}
     /\ last.salesChannelId # undefined
     /\ ResolvedLocations(last.salesChannelId) = {})
        => last.error # "none"

\* C20: in Ledger Mode, when the ledger rejects the reservation of one linked
\* item during reserve, the call fails with that error, a createReservation
\* call has still been issued for every other linked item of the variant, and
\* the reservations created for the other items remain in the ledger.
C20_PartialReservationKept ==
    [][(/\ last'.op = "reserveQuantity" /\ inventoryService_
        /\ \E l \in LinksOfVariant(last'.variantId) :
              l.inventory_item_id \in last'.rejected)
          => LET links == LinksOfVariant(last'.variantId)
                 others == {l \in links : l.inventory_item_id \notin last'.rejected}
                 created == reservations' \ reservations
             IN  /\ last'.error = "LEDGER_ERROR"
                 /\ reservations \subseteq reservations'
                 /\ \A l \in links : \E c \in calls' :
                       /\ c.fn = "createReservationItem"
                       /\ c.inventory_item_id = l.inventory_item_id
                       /\ c.quantity = last'.quantity * l.quantity
                 /\ Cardinality(created) = Cardinality(others)
                 /\ \A l \in others : \E n \in created :
                       /\ n.inventory_item_id = l.inventory_item_id
                       /\ n.quantity = last'.quantity * l.quantity
                       /\ n.line_item_id = last'.lineItemId]_vars

\* the ledger refused one of the two items of a variant and the reservation
\* of the other item stays in the ledger after the failed call
C20_Witness ==
    /\ last.op = "reserveQuantity" /\ inventoryService_
    /\ last.error = "LEDGER_ERROR"
    /\ Cardinality(LinksOfVariant(last.variantId)) = 2
    /\ Cardinality(last.rejected) = 1
    /\ \E r \in reservations :
          /\ r.line_item_id = last.lineItemId
          /\ r.inventory_item_id \notin last.rejected
          /\ r.id = createdCount
    /\ Cardinality(reservations) = 1

\* the last operation was a Ledger Mode adjustByLineItem
AdjustedInLedger(l) ==
    l.op = "adjustReservationsQuantityByLineItem" /\ inventoryService_

\* the magnitude of an adjustment
Magnitude(delta) == IF delta < 0 THEN -delta ELSE delta

\* the reservation is the most recently created of the set
NewestOf(t, S) == t \in S /\ \A o \in S : o.created_at <= t.created_at

\* C22 as stated: in Ledger Mode, adjustByLineItem(lineItemId, V, locationId,
\* delta) targets the most recently created reservation of the line item,
\* unless some reservation of the line item is placed at locationId with
\* quantity >= the magnitude of delta, in which case that one is targeted.
C22_TargetByMagnitude ==
    [][(AdjustedInLedger(last') /\ ReservationsOfLineItem(last'.lineItemId) # {})
          => LET own == ReservationsOfLineItem(last'.lineItemId)
                 fit == {r \in own : /\ r.location_id = last'.locationId
                                     /\ r.quantity >= Magnitude(last'.quantity)}
             IN  \E t \in last'.target :
                    IF fit # {} THEN t \in fit ELSE NewestOf(t, own)]_vars

\* C22 as amended: in Ledger Mode, adjustByLineItem targets the most recently
\* created reservation of the line item, unless some reservation of the line
\* item is placed at locationId with quantity >= delta (the signed delta, so
\* any quantity does for a negative delta), in which case that one is targeted.
C22_TargetBySignedDelta ==
    [][(AdjustedInLedger(last') /\ ReservationsOfLineItem(last'.lineItemId) # {})
          => LET own == ReservationsOfLineItem(last'.lineItemId)
                 fit == {r \in own : /\ r.location_id = last'.locationId
                                     /\ r.quantity >= last'.quantity}
             IN  \E t \in last'.target :
                    IF fit # {} THEN t \in fit ELSE NewestOf(t, own)]_vars

\* a positive adjustment went to an older reservation placed at the location
\* asked for, and the newer reservation of the line item is as it was
C22_Witness ==
    /\ AdjustedInLedger(last) /\ last.error = "none" /\ last.quantity > 0
    /\ \E t \in last.target :
          /\ t.location_id = last.locationId
          /\ \E r \in reservations :
                /\ r.line_item_id = last.lineItemId
                /\ r.created_at > t.created_at
                /\ r.location_id # t.location_id
          /\ \E u \in reservations : u.id = t.id /\ u.quantity < t.quantity

\* C23: in Ledger Mode, adjustByLineItem with a delta that does not bring the
\* targeted reservation to zero updates it in place to old quantity - delta *
\* link.quantity, link being the link between V and the reservation's item;
\* the reservation keeps its id, location and line item.
C23_UpdateInPlace ==
    [][(AdjustedInLedger(last') /\ last'.error = "none")
          => \A t \in last'.target :
                \A l \in LinksOfPair(last'.variantId, t.inventory_item_id) :
                   t.quantity - last'.quantity * l.quantity # 0
                     => reservations' = (reservations \ {t}) \cup
                          {[id |-> t.id, created_at |-> t.created_at, type |-> t.type,
                            line_item_id |-> t.line_item_id,
                            location_id |-> t.location_id,
                            inventory_item_id |-> t.inventory_item_id,
                            quantity |-> t.quantity - last'.quantity * l.quantity]}]_vars

\* an adjustment by 1 through a link of multiplier 2 left the targeted
\* reservation in the ledger, two units smaller, next to another reservation
C23_Witness ==
    /\ AdjustedInLedger(last) /\ last.error = "none" /\ last.quantity = 1
    /\ \E t \in last.target :
          /\ \E l \in LinksOfPair(last.variantId, t.inventory_item_id) : l.quantity = 2
          /\ \E u \in reservations :
                /\ u.id = t.id /\ u.location_id = t.location_id
                /\ u.quantity = t.quantity - 2
    /\ Cardinality(reservations) > 1

\* the counters of all variants
Counters == [v \in Variants |-> productVariant[v].inventory_quantity]

\* C21: the consistency mode never changes after construction and is never
\* mixed: in Simple Mode no exposed operation calls the Inventory Ledger, and
\* in Ledger Mode reserve, adjustByLineItem and release never change a
\* variant's inventory_quantity.
C21_ModeNeverMixed ==
    [][/\ inventoryService_' = inventoryService_
       /\ ~inventoryService_ => calls' = {}
       /\ (/\ inventoryService_
           /\ last'.op \in {"reserveQuantity", "adjustReservationsQuantityByLineItem",
                            "deleteReservationsByLineItem"})
             => Counters' = Counters]_vars

\* Simple Mode released stock of a managed variant through the counter with
\* no ledger call, or Ledger Mode removed a reservation and kept the counters
C21_Witness ==
    /\ last.op = "deleteReservationsByLineItem" /\ last.error = "none"
    /\ \/ /\ ~inventoryService_ /\ calls = {}
          /\ Counters[last.variantId] = claimedBalance[last.variantId] + last.quantity
       \/ /\ inventoryService_ /\ calls # {}
          /\ createdCount > Cardinality(reservations)
          /\ Counters = claimedBalance

\* C24: in Simple Mode, release(lineItemId, V, q) increases inventory_quantity
\* by exactly q when the variant has manageInventory = true, and leaves it
\* unchanged when manageInventory = false.
C24_SimpleReleaseRestores ==
    [][(/\ last'.op = "deleteReservationsByLineItem" /\ ~inventoryService_
        /\ last'.variantId \in Variants)
          => Counters' =
               [Counters EXCEPT ![last'.variantId] =
                   IF productVariant[last'.variantId].manage_inventory
                     THEN @ + last'.quantity ELSE @]]_vars

\* a release of two units raised the counter of a managed variant by two
C24_Witness ==
    /\ last.op = "deleteReservationsByLineItem" /\ ~inventoryService_
    /\ last.variantId \in Variants /\ last.quantity = 2
    /\ productVariant[last.variantId].manage_inventory
    /\ Counters[last.variantId] = claimedBalance[last.variantId] + 2

\* the stock claimed: what the counters have given away in Simple Mode, what
\* the reservations hold in Ledger Mode
ClaimedStock ==
    IF inventoryService_
      THEN SumOver(reservations, LAMBDA r : r.quantity)
      ELSE SumOver(Variants, LAMBDA v : 0 - productVariant[v].inventory_quantity)

\* C30: adjustByLineItem moves the amount of stock claimed by the line item
\* in the same direction in both modes: a positive delta claims more stock,
\* a negative delta claims less, whether the claim is kept in
\* inventory_quantity or in the reserved quantity.
C30_SameDirection ==
    [][(last'.op = "adjustReservationsQuantityByLineItem" /\ last'.error = "none")
          => /\ last'.quantity > 0 => ClaimedStock' >= ClaimedStock
             /\ last'.quantity < 0 => ClaimedStock' <= ClaimedStock]_vars

\* C25: validateAtLocation never mutates state: whether it succeeds or fails,
\* the link table, the reservations, the stock levels and every variant's
\* inventory_quantity are the same after the call as before.
C25_ValidateReadsOnly ==
    [][last'.op = "validateInventoryAtLocation"
          => /\ variantInventory' = variantInventory
             /\ reservations' = reservations
             /\ inventoryLevels' = inventoryLevels
             /\ Counters' = Counters]_vars

\* a validation failed for a linked variant while the ledger holds a
\* reservation and stock of the item
C25_Witness ==
    /\ last.op = "validateInventoryAtLocation" /\ last.error = "NOT_ALLOWED"
    /\ \E t \in last.item : LinksOfVariant(t.variant_id) # {}
    /\ reservations # {}
    /\ \E p \in DOMAIN inventoryLevels : inventoryLevels[p] > 0

\* C26: in Ledger Mode, reserve places its reservations at context.locationId
\* whenever it is given (even if salesChannelId is also given); otherwise,
\* when salesChannelId is given, at the first location returned by the
\* Sales-Channel-Location collaborator for that channel.
C26_ReservationLocation ==
    [][(last'.op = "reserveQuantity" /\ inventoryService_)
          => \A n \in reservations' \ reservations :
                IF last'.locationId # undefined
                  THEN n.location_id = last'.locationId
                  ELSE last'.salesChannelId # undefined
                         => n.location_id = listLocations(last'.salesChannelId)[1]]_vars

\* a reserve without locationId through a channel of two locations placed
\* its two reservations at the first of them, which is not the least one
C26_Witness ==
    /\ last.op = "reserveQuantity" /\ inventoryService_ /\ last.error = "none"
    /\ last.locationId = undefined /\ last.salesChannelId # undefined
    /\ Len(listLocations(last.salesChannelId)) = 2
    /\ Cardinality(ReservationsOfLineItem(last.lineItemId)) = 2
    /\ \A r \in ReservationsOfLineItem(last.lineItemId) :
          r.location_id = listLocations(last.salesChannelId)[1]

\* C27: in Ledger Mode, reserve for a variant with zero linked items is a
\* no-op: it creates no reservation, resolves no location and raises no
\* error, even when neither locationId nor salesChannelId is supplied.
C27_NoLinksNoReserve ==
    [][(/\ last'.op = "reserveQuantity" /\ inventoryService_
        /\ LinksOfVariant(last'.variantId) = {})
          => /\ last'.error = "none"
             /\ reservations' = reservations
             /\ calls' = {}]_vars

\* a reserve with neither location nor channel returned for a known variant
\* without links while another variant is linked and a reservation exists
C27_Witness ==
    /\ last.op = "reserveQuantity" /\ inventoryService_ /\ last.error = "none"
    /\ last.variantId \in Variants
    /\ LinksOfVariant(last.variantId) = {}
    /\ last.locationId = undefined /\ last.salesChannelId = undefined
    /\ variantInventory # {}
    /\ reservations # {}

\* C28: in Simple Mode, for a variant with manageInventory = true and
\* allowBackorder = false, if every caller reserves quantity q only after
\* confirmInventory returned true for q, then inventory_quantity never
\* becomes negative, for every interleaving of the callers' confirm and
\* reserve steps.
C28_ConfirmedReserveNonNegative ==
    \A v \in Variants : Tracked(v) => productVariant[v].inventory_quantity >= 0

\* C29: the at-most-one-link-per-pair invariant also holds under concurrency:
\* for every interleaving of the lookup and save steps of two concurrent
\* attach calls for the same unlinked pair, the link table ends with exactly
\* one link for that pair.
C29_OneLinkUnderConcurrency ==
    \A c \in Callers :
        (tx[c].pc = "done" /\ tx[c].error = "none")
            => Cardinality(LinksOfPair(tx[c].variantId, tx[c].inventoryItemId)) = 1

\* the quantity of the item that the store holds for the line item
ReservedFor(store, li, i) ==
    SumOver({r \in store : r.line_item_id = li /\ r.inventory_item_id = i},
            LAMBDA r : r.quantity)

\* the store holds for the line item the reservations of n units of the
\* variant: every linked item n times its multiplier, and no other item
ProportionalTo(store, li, v, n) ==
    /\ \A l \in LinksOfVariant(v) :
          ReservedFor(store, li, l.inventory_item_id) = n * l.quantity
    /\ \A r \in store :
          r.line_item_id = li => LinksOfPair(v, r.inventory_item_id) # {}

\* C31: in Ledger Mode, for a variant linked to two or more items, after
\* reserve(V, Q, {lineItemId: L}) followed by adjustByLineItem(L, V, loc, d),
\* the reservations of line item L stay proportional to the links: for every
\* linked item I the reserved quantity of I for L equals n * link(V,I).quantity
\* for one common line quantity n.
C31_AdjustKeepsProportion ==
    [][(/\ AdjustedInLedger(last') /\ last'.error = "none"
        /\ Cardinality(LinksOfVariant(last'.variantId)) >= 2
        /\ Cardinality(ReservationsOfLineItem(last'.lineItemId))
              = Cardinality(LinksOfVariant(last'.variantId))
        /\ \E q \in 1..MaxReserved :
              ProportionalTo(reservations, last'.lineItemId, last'.variantId, q))
          => \E n \in -MaxReserved..MaxReserved :
                ProportionalTo(reservations', last'.lineItemId, last'.variantId, n)]_vars

\* C32: in Ledger Mode, after any sequence of reserve calls with positive
\* quantities and adjustByLineItem calls with arbitrary integer deltas, every
\* reservation record in the ledger has a strictly positive quantity.
C32_ReservationsPositive ==
    inventoryService_ => \A r \in reservations : r.quantity > 0

\* C34: in Ledger Mode, adjustByLineItem for a line item that has no
\* reservations raises no error and makes no ledger write, whatever the
\* variant, location and delta are.
C34_AdjustWithoutReservations ==
    [][(AdjustedInLedger(last') /\ ReservationsOfLineItem(last'.lineItemId) = {})
          => /\ last'.error = "none"
             /\ reservations' = reservations
             /\ \A c \in calls' : c.fn = "listReservationItems"]_vars

\* an adjustment for a line item without reservations and an unknown variant
\* returned while the other line item holds two reservations
C34_Witness ==
    /\ AdjustedInLedger(last) /\ last.error = "none"
    /\ last.quantity # 0 /\ last.variantId = UnknownVariant
    /\ ReservationsOfLineItem(last.lineItemId) = {}
    /\ Cardinality(reservations) = 2 /\ createdCount = 2
    /\ calls # {}

\* C35: in Ledger Mode, when the targeted reservation's inventory item has no
\* link to the given variantId, adjustByLineItem fails with NotFound and
\* leaves every reservation unchanged.
C35_AdjustUnlinkedNotFound ==
    [][(/\ AdjustedInLedger(last')
        /\ \E t \in last'.target :
              /\ t \in ReservationsOfLineItem(last'.lineItemId)
              /\ LinksOfPair(last'.variantId, t.inventory_item_id) = {})
          => /\ last'.error = "NOT_FOUND"
             /\ reservations' = reservations]_vars

\* an adjustment failed for a known variant that is not linked to the item
\* of the line item's reservation, an item another variant is linked to
C35_Witness ==
    /\ AdjustedInLedger(last) /\ last.error = "NOT_FOUND"
    /\ last.variantId \in Variants
    /\ \E t \in last.target :
          /\ t \in reservations
          /\ LinksOfPair(last.variantId, t.inventory_item_id) = {}
          /\ \E l \in variantInventory : l.inventory_item_id = t.inventory_item_id
    /\ Cardinality(reservations) = createdCount

\* C33: in Simple Mode, reserve(V, q) followed by release(L, V, q) restores
\* inventory_quantity to its value before the reserve, for every variant,
\* whether manageInventory is true or false.
\* (claimedBalance holds the counter before the reserve less the quantity
\* reserved; the release leaves it alone)
C33_ReserveReleaseRoundTrip ==
    (~inventoryService_ /\ last.op = "deleteReservationsByLineItem")
        => Counters[last.variantId] = claimedBalance[last.variantId] + last.quantity

====
